---- MODULE Spec2Model ----
(***************************************************************************)
(* Orchestration core of the fashion analysis workflow: the state graph    *)
(* built in graph.py, the reducers of FashionAnalysisState, and the stage  *)
(* nodes' partial-state updates.  A run advances in supersteps: every task *)
(* of a superstep reads the same State snapshot, the tasks' updates are    *)
(* merged field by field when all of them have finished, and the edges     *)
(* leaving the finished tasks give the tasks of the next superstep.        *)
(***************************************************************************)
EXTENDS Integers, Sequences, FiniteSets, TLC

VARIABLES
    state,        \* FashionAnalysisState: field name -> value (only fields that hold a value)
    frontier,     \* the tasks (node names) of the current superstep
    writes,       \* finished tasks of the superstep: node -> [update, goto, resume]
    interrupted,  \* tasks of the superstep that raised interrupt() and wait for a resume value
    payload,      \* the interrupt payload surfaced to the human, NoPayload when none is pending
    files,        \* cache files under data/: file name -> content
    run,          \* "running" | "done" | "crashed"
    merged,       \* history: nodes whose update has been merged into State at least once
    recorded,     \* history: decision_type of the last decision outfit_reviewer recorded
    lastDesign,   \* history: what the most recent outfit_designer invocation produced
    stayed,       \* history: the router's stay label put outfit_reviewer in this superstep
    config_VIDEO_URLS, \* the list object config.VIDEO_URLS of the host process
    thread,       \* config["configurable"]["thread_id"]: the id of the run in progress
    fileWriter,   \* history: cache file -> thread that wrote it, 0 when it was there at the start
    crashResume,  \* history: "restarted" after a process restart at the review gate,
                  \* "rejected" once that gate was resumed with a reject carrying feedback
    loop,         \* the retry loop of one stage: its position and what it has done so far
    checkpoint    \* the checkpoint database: the latest checkpoint of the run in progress,
                  \* [thread_id, values]; the checkpoints of earlier runs are never read

vars == <<state, frontier, writes, interrupted, payload, files, run, merged, recorded, lastDesign,
          stayed, config_VIDEO_URLS, thread, fileWriter, crashResume, loop, checkpoint>>

\* What the steps of the tasks leave alone: the host process, the retry loop
\* and the checkpoint database.
hostVars == <<config_VIDEO_URLS, thread, fileWriter, crashResume, loop, checkpoint>>

----------------------------------------------------------------------------
(* Python dicts are functions with a finite domain of keys. *)

EmptyDict == [k \in {} |-> 0]

Get(d, k, default) == IF k \in DOMAIN d THEN d[k] ELSE default

IsEmptyDict(d) == DOMAIN d = {}

----------------------------------------------------------------------------
(* state.py: reducers and the declared fields of FashionAnalysisState *)

\* {**left, **right}
merge_dicts(left, right) ==
    [k \in (DOMAIN left) \cup (DOMAIN right) |->
        IF k \in DOMAIN right THEN right[k] ELSE left[k]]

\* Mutant: values below the agents' inner keys are merged too.
merge_agent_memories_deep(left, right) ==
    [a \in (DOMAIN left) \cup (DOMAIN right) |->
        IF a \in DOMAIN right
        THEN IF a \in DOMAIN left
             THEN [k \in (DOMAIN left[a]) \cup (DOMAIN right[a]) |->
                     IF k \in DOMAIN right[a]
                     THEN IF k \in DOMAIN left[a]
                          THEN merge_dicts(left[a][k], right[a][k])
                          ELSE right[a][k]
                     ELSE left[a][k]]
             ELSE right[a]
        ELSE left[a]]

\* Mutant: the right-hand agent entry replaces the left-hand one.
merge_agent_memories_shallow(left, right) ==
    [a \in (DOMAIN left) \cup (DOMAIN right) |->
        IF a \in DOMAIN right THEN right[a] ELSE left[a]]

merge_agent_memories(left, right) ==
    [a \in (DOMAIN left) \cup (DOMAIN right) |->
        IF a \in DOMAIN right
        THEN IF a \in DOMAIN left THEN merge_dicts(left[a], right[a]) ELSE right[a]
        ELSE left[a]]

StateFields ==
    {"query", "user_input", "awaiting_outfit_review", "outfit_review_decision",
     "data_urls", "content_analysis", "video_analysis", "final_report",
     "outfit_designs", "outfit_videos",
     "agent_memories", "execution_status", "errors"}

AppendFields ==
    {"data_urls", "content_analysis", "video_analysis", "outfit_designs", "outfit_videos"}

DictMergeFields == {"execution_status", "errors"}

OverwriteFields ==
    StateFields \ (AppendFields \cup DictMergeFields \cup {"agent_memories"})

\* Mutant: errors has no reducer, an update replaces the map.
Reduce_errors_overwritten(k, l, r) ==
    CASE k \in AppendFields -> l \o r
      [] k = "agent_memories" -> merge_agent_memories(l, r)
      [] k = "execution_status" -> merge_dicts(l, r)
      [] OTHER -> r

\* The reducer declared for field k, applied to the current value and an update.
Reduce(k, l, r) ==
    CASE k \in AppendFields -> l \o r
      [] k = "agent_memories" -> merge_agent_memories(l, r)
      [] k \in DictMergeFields -> merge_dicts(l, r)
      [] OTHER -> r

\* A node's return value restricted to the declared fields: the state graph
\* writes only the keys that are channels of FashionAnalysisState.
Declared(u) == [k \in (DOMAIN u) \cap StateFields |-> u[k]]

\* Mutant: the node's return value becomes the State.
ApplyUpdate_replace(s, u) == Declared(u)

\* One node update merged into State.
ApplyUpdate(s, u) ==
    LET d == Declared(u) IN
    [k \in (DOMAIN s) \cup (DOMAIN d) |->
        IF k \notin DOMAIN d THEN s[k]
        ELSE IF k \notin DOMAIN s THEN d[k]
        ELSE Reduce(k, s[k], d[k])]

\* State before the first superstep: fields with a reducer start at the empty
\* value of their type, overwrite fields hold nothing until written.
InitialState ==
    [k \in AppendFields \cup DictMergeFields \cup {"agent_memories"} |->
        IF k \in AppendFields THEN <<>> ELSE EmptyDict]

----------------------------------------------------------------------------
(* Values exchanged with the environment *)

None == "None"

DefaultQuery == "Fashion trend analysis"

\* config.py VIDEO_URLS: one configured video.
VIDEO_URLS == <<"https://www.youtube.com/watch?v=CwmKr-wkj1M">>

ContentCache == "data/content_analyzer_output.json"
TrendCache == "data/trend_processor_output.json"
OutfitCache == "data/outfit_designer_output.json"

\* What the remote agent of a stage ends with once its retry loop is over.
AgentOutcomes == {"ok", "error"}

Outfit(name, image) == [outfit_name |-> name, saved_image_path |-> image]

\* A ListofOutfits left on disk by an earlier execution, and the collections
\* the designer agent may produce in this one.
CachedDesign == [Outfits |-> <<Outfit("Look A", "a.png"), Outfit("Look B", "b.png")>>]

AgentDesigns ==
    { [Outfits |-> <<Outfit("Look C", "c.png")>>],
      [Outfits |-> <<Outfit("Look D", "d.png"), Outfit("Look E", "e.png")>>] }

CachedTrends == [trend_analysis |-> [style_trends |-> <<"cached trend">>]]
AgentTrends == [trend_analysis |-> [style_trends |-> <<"fresh trend">>]]

\* A resume value handed to interrupt(): the mapping the human supplied, and
\* whether its values have the types the pydantic model of the gate accepts.
ResumeValue(ok, f) == [wellTyped |-> ok, fields |-> f]

UserResumeValues ==
    { ResumeValue(TRUE, EmptyDict),
      ResumeValue(TRUE, [query |-> "test"]),
      ResumeValue(TRUE, [query |-> "test", custom_videos |-> <<"v1">>]),
      ResumeValue(FALSE, [custom_urls |-> "not a list"]) }

ReviewResumeValues ==
    { ResumeValue(TRUE, [decision_type |-> "approve"]),
      ResumeValue(TRUE, [decision_type |-> "approve", selected_outfit_ids |-> <<"outfit_0">>]),
      ResumeValue(TRUE, [decision_type |-> "reject", rejection_feedback |-> "not aligned"]),
      ResumeValue(TRUE, [decision_type |-> "reject"]),
      ResumeValue(TRUE, [decision_type |-> "edit", edit_instructions |-> "more colour"]),
      ResumeValue(TRUE, [decision_type |-> "edit", edit_instructions |-> "",
                         selected_outfit_ids |-> <<>>]),
      ResumeValue(TRUE, [decision_type |-> "maybe"]),
      ResumeValue(TRUE, [rejection_feedback |-> "no tag"]),
      ResumeValue(FALSE, [decision_type |-> "approve", selected_outfit_ids |-> "all"]) }

----------------------------------------------------------------------------
(* Stage nodes: the partial-state update each returns for a State snapshot s *)

\* {**state.get(field, {}), key: value}
Spread(s, field, key, value) == merge_dicts(Get(s, field, EmptyDict), key :> value)

\* user_input_collector.py: UserInput(**user_response).model_dump()
UserInputDump(f) ==
    [custom_urls |-> Get(f, "custom_urls", <<>>),
     custom_images |-> Get(f, "custom_images", <<>>),
     custom_videos |-> Get(f, "custom_videos", <<>>),
     query |-> Get(f, "query", "")]

\* Mutant: a resume value that fails validation leaves State without user_input.
user_input_collector_no_fallback(s, v) ==
    IF v.wellTyped
    THEN LET user_input == UserInputDump(v.fields) IN
         [user_input |-> user_input,
          query |-> IF user_input.query # "" THEN user_input.query
                    ELSE Get(s, "query", DefaultQuery)]
    ELSE EmptyDict

user_input_collector_node(s, v) ==
    IF v.wellTyped
    THEN LET user_input == UserInputDump(v.fields) IN
         [user_input |-> user_input,
          query |-> IF user_input.query # "" THEN user_input.query
                    ELSE Get(s, "query", DefaultQuery)]
    ELSE [user_input |-> UserInputDump(EmptyDict),
          query |-> Get(s, "query", DefaultQuery)]

data_collector_node(s, outcome) ==
    IF outcome = "ok"
    THEN [data_collection |-> [url_list |-> <<"u1", "u2">>],
          agent_memories |-> Spread(s, "agent_memories", "data_collector",
                                    [last_analysis |-> "collector notes"]),
          execution_status |-> Spread(s, "execution_status", "data_collector", "completed"),
          token_usage |-> [total_tokens |-> 1]]
    ELSE [data_collection |-> EmptyDict,
          errors |-> Spread(s, "errors", "data_collector", "agent error"),
          execution_status |-> Spread(s, "execution_status", "data_collector", "failed")]

\* Returns [update, files]: the node's return value and the cache files after it.
content_analyzer_node(s, fs, outcome) ==
    IF ContentCache \in DOMAIN fs
    THEN [update |->
            [content_analysis |-> <<fs[ContentCache]>>,
             agent_memories |-> Spread(s, "agent_memories", "content_analyzer",
                                       [last_analysis |-> "thesis"]),
             execution_status |-> Spread(s, "execution_status", "content_analyzer", "completed")],
          files |-> fs]
    ELSE LET url_list == Get(Get(s, "data_collection", EmptyDict), "url_list", <<>>) IN
         IF Len(url_list) = 0 \/ outcome # "ok"
         THEN [update |->
                 [content_analysis |-> <<>>,
                  errors |-> Spread(s, "errors", "content_analyzer",
                                    IF Len(url_list) = 0 THEN "No URLs from data collector"
                                    ELSE "agent error"),
                  execution_status |-> Spread(s, "execution_status", "content_analyzer", "failed")],
               files |-> fs]
         ELSE [update |->
                 [content_analysis |-> <<"fresh content analysis">>,
                  agent_memories |-> Spread(s, "agent_memories", "content_analyzer",
                                            [last_analysis |-> "thesis"]),
                  execution_status |-> Spread(s, "execution_status", "content_analyzer", "completed")],
               files |-> merge_dicts(fs, ContentCache :> "fresh content analysis")]

\* video_analyzer.py.  load_video_urls() returns the list object config.VIDEO_URLS
\* itself (global), and video_urls.extend(custom_videos) grows that object.
\* Returns [update, VIDEO_URLS]: the node's return value and the list after it.
video_analyzer_node(s, global, outcome) ==
    LET video_urls == global \o Get(Get(s, "user_input", EmptyDict), "custom_videos", <<>>)
        update ==
            IF Len(video_urls) = 0
            THEN [video_analysis |-> <<EmptyDict>>,
                  execution_status |-> Spread(s, "execution_status", "video_analyzer", "skipped")]
            ELSE IF outcome = "ok"
            THEN [video_analysis |-> <<[per_video_results |-> video_urls]>>,
                  agent_memories |-> Spread(s, "agent_memories", "video_analyzer",
                                            [processed_videos |-> Len(video_urls)]),
                  execution_status |-> Spread(s, "execution_status", "video_analyzer", "completed"),
                  token_usage |-> [total_tokens |-> 1]]
            ELSE [video_analysis |-> <<>>,
                  errors |-> Spread(s, "errors", "video_analyzer", "agent error"),
                  execution_status |-> Spread(s, "execution_status", "video_analyzer", "failed")]
    IN [update |-> update, VIDEO_URLS |-> video_urls]

\* graph.py coordination_node
coordination_node(s) == EmptyDict

final_processor_node(s, fs, outcome) ==
    IF TrendCache \in DOMAIN fs
    THEN [update |->
            [final_processor |-> fs[TrendCache],
             agent_memories |-> Spread(s, "agent_memories", "final_processor",
                                       [top_trends |-> 1, processing_time |-> 0]),
             execution_status |-> Spread(s, "execution_status", "final_processor", "completed")],
          files |-> fs]
    ELSE IF Len(Get(s, "content_analysis", <<>>)) = 0
    THEN [update |->
            [final_processor |-> EmptyDict,
             errors |-> [final_processor |-> "No content analysis available"],
             execution_status |-> [final_processor |-> "skipped"]],
          files |-> fs]
    ELSE IF outcome = "ok"
    THEN [update |->
            [final_processor |-> AgentTrends,
             agent_memories |-> Spread(s, "agent_memories", "final_processor",
                                       [top_trends |-> 1, processing_time |-> 1]),
             execution_status |-> Spread(s, "execution_status", "final_processor", "completed")],
          files |-> merge_dicts(fs, TrendCache :> AgentTrends)]
    ELSE [update |->
            [final_processor |-> EmptyDict,
             errors |-> [final_processor |-> "agent error"],
             execution_status |-> [final_processor |-> "failed"]],
          files |-> fs]

\* outfit_designer.py.  design is what the agent returns when it is invoked and
\* succeeds.  Returns [update, files]: the node's return value and the cache
\* files after it.
outfit_designer_node(s, fs, outcome, design) ==
    LET outfit_review_decision == Get(s, "outfit_review_decision", EmptyDict)
        is_edit_request == Get(outfit_review_decision, "decision_type", None) = "edit"
        trend_analysis == Get(Get(s, "final_processor", EmptyDict), "trend_analysis", EmptyDict)
    IN
    IF ~is_edit_request /\ OutfitCache \in DOMAIN fs
    THEN [update |->
            [outfit_designs |-> <<fs[OutfitCache]>>,
             agent_memories |-> Spread(s, "agent_memories", "outfit_designer",
                                       [outfits_created |-> Len(fs[OutfitCache].Outfits)]),
             execution_status |-> Spread(s, "execution_status", "outfit_designer", "completed")],
          files |-> fs]
    ELSE IF IsEmptyDict(trend_analysis)
    THEN [update |->
            [outfit_designs |-> <<>>,
             errors |-> Spread(s, "errors", "outfit_designer", "No trend analysis available"),
             execution_status |-> Spread(s, "execution_status", "outfit_designer", "skipped")],
          files |-> fs]
    ELSE IF outcome = "ok"
    THEN [update |->
            merge_dicts(
              [outfit_designs |-> <<design>>,
               agent_memories |-> Spread(s, "agent_memories", "outfit_designer",
                                         [outfits_created |-> Len(design.Outfits),
                                          was_revision |-> is_edit_request]),
               execution_status |->
                   merge_dicts(Get(s, "execution_status", EmptyDict),
                               [outfit_designer |-> "completed",
                                outfit_reviewer |-> "pending"])],
              IF is_edit_request THEN [outfit_review_decision |-> EmptyDict] ELSE EmptyDict),
          files |-> merge_dicts(fs, OutfitCache :> design)]
    ELSE [update |->
            [outfit_designs |-> <<>>,
             errors |-> Spread(s, "errors", "outfit_designer", "agent error"),
             execution_status |-> Spread(s, "execution_status", "outfit_designer", "failed")],
          files |-> fs]

\* f"outfit_{idx}" for the 0-based position idx of an outfit in the payload
OutfitId(idx) ==
    CASE idx = 0 -> "outfit_0" [] idx = 1 -> "outfit_1" [] idx = 2 -> "outfit_2"
      [] OTHER -> "outfit_n"

\* user_input_collector.py, the statements ahead of interrupt(): a log line;
\* the data directory after them is the one before them.
user_input_collector_before_interrupt(s, fs) == fs

\* Mutant: the reviewer clears the designer's cache file before it interrupts.
outfit_reviewer_before_interrupt_clearing(s, fs) ==
    [f \in DOMAIN fs \ {OutfitCache} |-> fs[f]]

\* outfit_reviewer.py, the statements ahead of interrupt(): reads of state,
\* log lines and the payload built in memory; the data directory after them
\* is the one before them.
outfit_reviewer_before_interrupt(s, fs) == fs

\* outfit_reviewer.py: the payload shown at the review, built from the first
\* collection of outfit_designs.
review_payload(outfit_designs) ==
    LET outfits_list == Get(outfit_designs[1], "Outfits", <<>>) IN
    [message |-> "Review outfit designs before proceeding to video generation",
     total_outfits |-> Len(outfits_list),
     outfits |-> [i \in 1..Len(outfits_list) |->
                    [outfit_id |-> OutfitId(i - 1),
                     name |-> Get(outfits_list[i], "outfit_name", ""),
                     image_path |-> Get(outfits_list[i], "saved_image_path", "")]]]

\* Mutant: the guards on a completed review are left out.
outfit_reviewer_gate_unguarded(s) ==
    LET outfit_designs == Get(s, "outfit_designs", <<>>) IN
    IF Len(outfit_designs) = 0
    THEN [kind |-> "return",
          update |-> [awaiting_outfit_review |-> FALSE,
                      errors |-> Spread(s, "errors", "outfit_reviewer", "No outfits to review")]]
    ELSE [kind |-> "interrupt", payload |-> review_payload(outfit_designs)]

\* outfit_reviewer.py, up to interrupt(): either the node returns at once
\* (kind "return") or it surfaces the review payload (kind "interrupt").
outfit_reviewer_gate(s) ==
    LET reviewer_status == Get(Get(s, "execution_status", EmptyDict), "outfit_reviewer", None)
        existing_decision == Get(s, "outfit_review_decision", EmptyDict)
        outfit_designs == Get(s, "outfit_designs", <<>>)
    IN
    IF reviewer_status = "completed"
    THEN [kind |-> "return", update |-> EmptyDict]
    ELSE IF Get(existing_decision, "decision_type", None) \in {"approve", "reject"}
    THEN [kind |-> "return", update |-> EmptyDict]
    ELSE IF Len(outfit_designs) = 0
    THEN [kind |-> "return",
          update |-> [awaiting_outfit_review |-> FALSE,
                      errors |-> Spread(s, "errors", "outfit_reviewer", "No outfits to review")]]
    ELSE [kind |-> "interrupt", payload |-> review_payload(outfit_designs)]

\* OutfitReviewDecision(**review_response).model_dump()
DecisionDump(f) ==
    [decision_type |-> f["decision_type"],
     rejection_feedback |-> Get(f, "rejection_feedback", ""),
     edit_instructions |-> Get(f, "edit_instructions", ""),
     selected_outfit_ids |-> Get(f, "selected_outfit_ids", <<>>)]

InvalidReview(s) ==
    [awaiting_outfit_review |-> FALSE,
     errors |-> Spread(s, "errors", "outfit_reviewer", "Invalid review decision")]

\* Mutant: the mandatory-field checks are left out.
outfit_reviewer_resumed_unchecked(s, v) ==
    IF ~v.wellTyped \/ "decision_type" \notin DOMAIN v.fields
    THEN InvalidReview(s)
    ELSE LET decision == DecisionDump(v.fields) IN
         IF decision.decision_type = "approve"
         THEN [awaiting_outfit_review |-> FALSE,
               outfit_review_decision |-> decision,
               execution_status |-> Spread(s, "execution_status", "outfit_reviewer", "completed")]
         ELSE IF decision.decision_type = "reject"
         THEN [awaiting_outfit_review |-> FALSE,
               outfit_review_decision |-> decision,
               errors |-> Spread(s, "errors", "outfit_reviewer", "Designs rejected"),
               execution_status |-> Spread(s, "execution_status", "outfit_reviewer", "rejected")]
         ELSE IF decision.decision_type = "edit"
         THEN [awaiting_outfit_review |-> TRUE,
               outfit_review_decision |-> decision,
               execution_status |->
                   Spread(s, "execution_status", "outfit_reviewer", "edit_requested")]
         ELSE InvalidReview(s)

\* Mutant: the resume value is taken as the decision without being validated.
outfit_reviewer_resumed_passthrough(s, v) ==
    [awaiting_outfit_review |-> FALSE,
     outfit_review_decision |-> v.fields,
     execution_status |-> Spread(s, "execution_status", "outfit_reviewer", "completed")]

\* outfit_reviewer.py, after interrupt() returned the resume value v
outfit_reviewer_resumed(s, v) ==
    IF ~v.wellTyped \/ "decision_type" \notin DOMAIN v.fields
    THEN InvalidReview(s)
    ELSE LET decision == DecisionDump(v.fields) IN
         IF decision.decision_type = "reject" /\ decision.rejection_feedback = ""
         THEN InvalidReview(s)
         ELSE IF decision.decision_type = "edit" /\ decision.edit_instructions = ""
         THEN InvalidReview(s)
         ELSE IF decision.decision_type = "approve"
         THEN [awaiting_outfit_review |-> FALSE,
               outfit_review_decision |-> decision,
               execution_status |-> Spread(s, "execution_status", "outfit_reviewer", "completed")]
         ELSE IF decision.decision_type = "reject"
         THEN [awaiting_outfit_review |-> FALSE,
               outfit_review_decision |-> decision,
               errors |-> Spread(s, "errors", "outfit_reviewer", "Designs rejected"),
               execution_status |-> Spread(s, "execution_status", "outfit_reviewer", "rejected")]
         ELSE IF decision.decision_type = "edit"
         THEN [awaiting_outfit_review |-> TRUE,
               outfit_review_decision |-> decision,
               execution_status |->
                   Spread(s, "execution_status", "outfit_reviewer", "edit_requested")]
         ELSE InvalidReview(s)

\* The outfit names video_generator makes a video for: every outfit of every
\* collection in outfit_designs, kept when no ids are selected or its name is one.
RECURSIVE OutfitNames(_)
OutfitNames(designs) ==
    IF Len(designs) = 0 THEN <<>>
    ELSE LET outfits_list == Get(Head(designs), "Outfits", <<>>) IN
         [i \in 1..Len(outfits_list) |-> outfits_list[i].outfit_name]
             \o OutfitNames(Tail(designs))

SeqToSet(q) == {q[i] : i \in 1..Len(q)}

video_generator_node(s, outcome) ==
    LET outfit_designs == Get(s, "outfit_designs", <<>>)
        selected_outfit_ids ==
            Get(Get(s, "outfit_review_decision", EmptyDict), "selected_outfit_ids", <<>>)
        Keep(name) == Len(selected_outfit_ids) = 0 \/ name \in SeqToSet(selected_outfit_ids)
    IN
    IF Len(outfit_designs) = 0
    THEN [outfit_videos |-> <<>>,
          errors |-> Spread(s, "errors", "video_generator", "No outfit designs available"),
          execution_status |-> Spread(s, "execution_status", "video_generator", "skipped")]
    ELSE IF outcome = "ok"
    THEN [outfit_videos |-> <<[video_results |-> SelectSeq(OutfitNames(outfit_designs), Keep)]>>,
          agent_memories |-> Spread(s, "agent_memories", "video_generator",
                                    [videos_generated |-> 1]),
          execution_status |-> Spread(s, "execution_status", "video_generator", "completed")]
    ELSE [outfit_videos |-> <<>>,
          errors |-> Spread(s, "errors", "video_generator", "generation error"),
          execution_status |-> Spread(s, "execution_status", "video_generator", "failed")]

----------------------------------------------------------------------------
(* graph.py: the edges, the router and its transition table *)

END == "__end__"

Nodes ==
    {"user_input_collector", "data_collector", "content_analyzer", "video_analyzer",
     "coordination", "final_processor", "outfit_designer", "outfit_reviewer",
     "video_generator"}

\* builder.add_edge(start, end), each with a single start node
Edges ==
    { <<"user_input_collector", "data_collector">>,
      <<"user_input_collector", "video_analyzer">>,
      <<"data_collector", "content_analyzer">>,
      <<"content_analyzer", "coordination">>,
      <<"video_analyzer", "coordination">>,
      <<"coordination", "final_processor">>,
      <<"final_processor", "outfit_designer">>,
      <<"outfit_designer", "outfit_reviewer">>,
      <<"video_generator", END>> }

\* Mutant: with no valid decision the router advances instead of staying.
route_after_review_fail_open(s) ==
    LET decision == Get(s, "outfit_review_decision", EmptyDict)
        decision_type == Get(decision, "decision_type", "")
    IN
    IF decision_type = "reject" THEN END
    ELSE IF decision_type = "edit" THEN "outfit_designer"
    ELSE "video_generator"

\* Mutant: the labels of reject and edit are exchanged.
route_after_review_swapped(s) ==
    LET decision == Get(s, "outfit_review_decision", EmptyDict)
        decision_type == Get(decision, "decision_type", "")
    IN
    IF decision_type = "approve" THEN "video_generator"
    ELSE IF decision_type = "reject" THEN "outfit_designer"
    ELSE IF decision_type = "edit" THEN END
    ELSE "outfit_reviewer"

\* Mutant: a rejection advances to video generation.
route_after_review_reject_advances(s) ==
    LET decision == Get(s, "outfit_review_decision", EmptyDict)
        decision_type == Get(decision, "decision_type", "")
    IN
    IF decision_type = "approve" THEN "video_generator"
    ELSE IF decision_type = "reject" THEN "video_generator"
    ELSE IF decision_type = "edit" THEN "outfit_designer"
    ELSE "outfit_reviewer"

route_after_review(s) ==
    LET decision == Get(s, "outfit_review_decision", EmptyDict)
        decision_type == Get(decision, "decision_type", "")
    IN
    IF decision_type = "approve" THEN "video_generator"
    ELSE IF decision_type = "reject" THEN END
    ELSE IF decision_type = "edit" THEN "outfit_designer"
    ELSE "outfit_reviewer"

\* The mapping given to add_conditional_edges
RouteTable ==
    [label \in {"video_generator", "outfit_designer", "outfit_reviewer", END} |-> label]

\* The nodes a finished task triggers for the next superstep.  An edge with a
\* single start node triggers its end node whenever the start node finishes;
\* the router of outfit_reviewer reads the snapshot with the task's own update
\* applied.
Goto(n, s, u) ==
    IF n = "outfit_reviewer"
    THEN {RouteTable[route_after_review(ApplyUpdate(s, u))]} \ {END}
    ELSE {e[2] : e \in {d \in Edges : d[1] = n}} \ {END}

----------------------------------------------------------------------------
(* The run: supersteps over the compiled graph *)

NoPayload == [message |-> "none"]

NoDesign == [outfits |-> <<>>, revision |-> FALSE]

\* The updates of a superstep are applied in the order of the tasks' node names.
NameOrder ==
    <<"content_analyzer", "coordination", "data_collector", "final_processor",
      "outfit_designer", "outfit_reviewer", "user_input_collector", "video_analyzer",
      "video_generator">>

RECURSIVE ApplyAll(_, _, _)
ApplyAll(s, w, order) ==
    IF Len(order) = 0 THEN s
    ELSE ApplyAll(IF Head(order) \in DOMAIN w THEN ApplyUpdate(s, w[Head(order)].update) ELSE s,
                  w, Tail(order))

\* Position of n in NameOrder.
NameRank(n) == CHOOSE i \in 1..Len(NameOrder) : NameOrder[i] = n

\* Mutant: the updates are applied as the tasks finish.
TaskOrder_by_arrival(w) ==
    [i \in 1..Cardinality(DOMAIN w) |-> CHOOSE n \in DOMAIN w : w[n].arrived = i]

\* The tasks whose updates a superstep applies, in the order it applies them:
\* sorted by node name, whatever the order they finished in.
TaskOrder(w) ==
    [i \in 1..Cardinality(DOMAIN w) |->
        CHOOSE n \in DOMAIN w :
            Cardinality({m \in DOMAIN w : NameRank(m) < NameRank(n)}) = i - 1]

\* An overwrite field accepts one value per superstep.
WriteConflict(w) ==
    \E a, b \in DOMAIN w :
        /\ a # b
        /\ (DOMAIN Declared(w[a].update)) \cap (DOMAIN Declared(w[b].update))
               \cap OverwriteFields # {}

CacheContent(f) ==
    CASE f = ContentCache -> "cached content analysis"
      [] f = TrendCache -> CachedTrends
      [] f = OutfitCache -> CachedDesign

InitialFiles ==
    { [f \in present |-> CacheContent(f)] :
        present \in SUBSET {ContentCache, TrendCache, OutfitCache} }

\* The host executes at most MaxRuns runs, one after the other.
MaxRuns == 2

\* No retry loop is in progress.
NoLoop == [status |-> "idle"]

\* The cache files after a stage, each with the thread that wrote it.
Written(fs) ==
    [f \in DOMAIN fs |->
        IF f \in DOMAIN files /\ fs[f] = files[f] THEN fileWriter[f] ELSE thread]

\* A resume value that outfit_reviewer accepts as a rejection.
RejectsWithFeedback(v) ==
    /\ v.wellTyped
    /\ "decision_type" \in DOMAIN v.fields
    /\ v.fields["decision_type"] = "reject"
    /\ Get(v.fields, "rejection_feedback", "") # ""

NoCheckpoint == [thread_id |-> 0, values |-> InitialState]

\* Mutant: the graph is compiled without a checkpointer, nothing is stored.
checkpoint_put_nothing(cp, t, s) == cp

\* builder.compile(checkpointer=_CHECKPOINTER): after a superstep the State of
\* thread t is stored as its latest checkpoint.
checkpoint_put(cp, t, s) == [thread_id |-> t, values |-> s]

\* The State of the latest checkpoint of thread t, the empty State when the
\* thread has none.
checkpoint_get(cp, t) == IF cp.thread_id = t THEN cp.values ELSE InitialState

Init ==
    /\ state = InitialState
    /\ frontier = {"user_input_collector"}
    /\ writes = EmptyDict
    /\ interrupted = {}
    /\ payload = NoPayload
    /\ files \in InitialFiles
    /\ run = "running"
    /\ merged = {}
    /\ recorded = None
    /\ lastDesign = NoDesign
    /\ stayed = FALSE
    /\ config_VIDEO_URLS = VIDEO_URLS
    /\ thread = 1
    /\ fileWriter = [f \in DOMAIN files |-> 0]
    /\ crashResume = "none"
    /\ loop = NoLoop
    /\ checkpoint = checkpoint_put(NoCheckpoint, thread, state)

Ready(n) ==
    /\ run = "running"
    /\ n \in frontier
    /\ n \notin DOMAIN writes
    /\ n \notin interrupted

\* The run is suspended: every task of the superstep has finished or waits at
\* its interrupt.
Paused(n) ==
    /\ run = "running"
    /\ n \in interrupted
    /\ frontier \ interrupted \subseteq DOMAIN writes

\* The task of n has finished with update u; arrived is its rank among the
\* tasks of the superstep in the order they finished.
Finished(n, u, resume) ==
    merge_dicts(writes, n :> [update |-> u, goto |-> Goto(n, state, u), resume |-> resume,
                              arrived |-> Cardinality(DOMAIN writes) + 1])

UserInputInterrupt ==
    /\ Ready("user_input_collector")
    /\ interrupted' = interrupted \cup {"user_input_collector"}
    /\ payload' = [message |-> "Provide custom URLs, images, and videos for fashion analysis"]
    /\ files' = user_input_collector_before_interrupt(state, files)
    /\ fileWriter' = Written(files')
    /\ UNCHANGED <<state, frontier, writes, run, merged, recorded, lastDesign, stayed>>
    /\ UNCHANGED <<config_VIDEO_URLS, thread, crashResume, loop, checkpoint>>

UserInputResume ==
    /\ Paused("user_input_collector")
    /\ \E v \in UserResumeValues :
          writes' = Finished("user_input_collector", user_input_collector_node(state, v), <<v>>)
    /\ interrupted' = interrupted \ {"user_input_collector"}
    /\ payload' = NoPayload
    /\ files' = user_input_collector_before_interrupt(state, files)
    /\ fileWriter' = Written(files')
    /\ UNCHANGED <<state, frontier, run, merged, recorded, lastDesign, stayed>>
    /\ UNCHANGED <<config_VIDEO_URLS, thread, crashResume, loop, checkpoint>>

DataCollector ==
    /\ Ready("data_collector")
    /\ \E outcome \in AgentOutcomes :
          writes' = Finished("data_collector", data_collector_node(state, outcome), <<>>)
    /\ UNCHANGED <<state, frontier, interrupted, payload, files, run, merged, recorded, lastDesign, stayed>>
    /\ UNCHANGED hostVars

ContentAnalyzer ==
    /\ Ready("content_analyzer")
    /\ \E outcome \in AgentOutcomes :
          LET r == content_analyzer_node(state, files, outcome) IN
          /\ writes' = Finished("content_analyzer", r.update, <<>>)
          /\ files' = r.files
          /\ fileWriter' = Written(r.files)
    /\ UNCHANGED <<state, frontier, interrupted, payload, run, merged, recorded, lastDesign, stayed>>
    /\ UNCHANGED <<config_VIDEO_URLS, thread, crashResume, loop, checkpoint>>

VideoAnalyzer ==
    /\ Ready("video_analyzer")
    /\ \E outcome \in AgentOutcomes :
          LET r == video_analyzer_node(state, config_VIDEO_URLS, outcome) IN
          /\ writes' = Finished("video_analyzer", r.update, <<>>)
          /\ config_VIDEO_URLS' = r.VIDEO_URLS
    /\ UNCHANGED <<state, frontier, interrupted, payload, files, run, merged, recorded, lastDesign, stayed>>
    /\ UNCHANGED <<thread, fileWriter, crashResume, loop, checkpoint>>

Coordination ==
    /\ Ready("coordination")
    /\ writes' = Finished("coordination", coordination_node(state), <<>>)
    /\ UNCHANGED <<state, frontier, interrupted, payload, files, run, merged, recorded, lastDesign, stayed>>
    /\ UNCHANGED hostVars

FinalProcessor ==
    /\ Ready("final_processor")
    /\ \E outcome \in AgentOutcomes :
          LET r == final_processor_node(state, files, outcome) IN
          /\ writes' = Finished("final_processor", r.update, <<>>)
          /\ files' = r.files
          /\ fileWriter' = Written(r.files)
    /\ UNCHANGED <<state, frontier, interrupted, payload, run, merged, recorded, lastDesign, stayed>>
    /\ UNCHANGED <<config_VIDEO_URLS, thread, crashResume, loop, checkpoint>>

OutfitDesigner ==
    /\ Ready("outfit_designer")
    /\ \E outcome \in AgentOutcomes, design \in AgentDesigns :
          LET r == outfit_designer_node(state, files, outcome, design) IN
          /\ writes' = Finished("outfit_designer", r.update, <<>>)
          /\ files' = r.files
          /\ fileWriter' = Written(r.files)
          /\ lastDesign' =
                [outfits |-> r.update.outfit_designs,
                 revision |-> Get(Get(state, "outfit_review_decision", EmptyDict),
                                  "decision_type", None) = "edit"]
    /\ UNCHANGED <<state, frontier, interrupted, payload, run, merged, recorded, stayed>>
    /\ UNCHANGED <<config_VIDEO_URLS, thread, crashResume, loop, checkpoint>>

OutfitReviewer ==
    /\ Ready("outfit_reviewer")
    /\ LET g == outfit_reviewer_gate(state) IN
       IF g.kind = "interrupt"
       THEN /\ interrupted' = interrupted \cup {"outfit_reviewer"}
            /\ payload' = g.payload
            /\ UNCHANGED writes
       ELSE /\ writes' = Finished("outfit_reviewer", g.update, <<>>)
            /\ UNCHANGED <<interrupted, payload>>
    /\ files' = outfit_reviewer_before_interrupt(state, files)
    /\ fileWriter' = Written(files')
    /\ UNCHANGED <<state, frontier, run, merged, recorded, lastDesign, stayed>>
    /\ UNCHANGED <<config_VIDEO_URLS, thread, crashResume, loop, checkpoint>>

\* The run is resumed with a value: outfit_reviewer is executed again on the
\* same snapshot and interrupt() returns the value.
ReviewResume ==
    /\ Paused("outfit_reviewer")
    /\ outfit_reviewer_gate(state).kind = "interrupt"
    /\ \E v \in ReviewResumeValues :
          /\ writes' = Finished("outfit_reviewer", outfit_reviewer_resumed(state, v), <<v>>)
          /\ crashResume' =
                IF crashResume = "restarted" /\ RejectsWithFeedback(v) THEN "rejected" ELSE "none"
    /\ interrupted' = interrupted \ {"outfit_reviewer"}
    /\ payload' = NoPayload
    /\ files' = outfit_reviewer_before_interrupt(state, files)
    /\ fileWriter' = Written(files')
    /\ UNCHANGED <<state, frontier, run, merged, recorded, lastDesign, stayed>>
    /\ UNCHANGED <<config_VIDEO_URLS, thread, loop, checkpoint>>

VideoGenerator ==
    /\ Ready("video_generator")
    /\ \E outcome \in AgentOutcomes :
          writes' = Finished("video_generator", video_generator_node(state, outcome), <<>>)
    /\ UNCHANGED <<state, frontier, interrupted, payload, files, run, merged, recorded, lastDesign, stayed>>
    /\ UNCHANGED hostVars

\* Every task of the superstep has finished: merge the updates, take the edges.
Commit ==
    /\ run = "running"
    /\ frontier # {}
    /\ frontier \subseteq DOMAIN writes
    /\ IF WriteConflict(writes)
       THEN /\ run' = "crashed"
            /\ frontier' = {}
            /\ stayed' = FALSE
            /\ UNCHANGED <<state, merged, recorded, checkpoint>>
       ELSE /\ state' = ApplyAll(state, writes, TaskOrder(writes))
            /\ checkpoint' = checkpoint_put(checkpoint, thread, state')
            /\ frontier' = UNION {writes[n].goto : n \in frontier}
            /\ run' = IF frontier' = {} THEN "done" ELSE "running"
            /\ merged' = merged \cup frontier
            /\ recorded' =
                  IF /\ "outfit_reviewer" \in frontier
                     /\ "outfit_review_decision" \in DOMAIN writes["outfit_reviewer"].update
                  THEN writes["outfit_reviewer"].update.outfit_review_decision.decision_type
                  ELSE recorded
            /\ stayed' = /\ "outfit_reviewer" \in frontier
                          /\ "outfit_reviewer" \in writes["outfit_reviewer"].goto
    /\ writes' = EmptyDict
    /\ UNCHANGED <<interrupted, payload, files, lastDesign>>
    /\ UNCHANGED <<config_VIDEO_URLS, thread, fileWriter, crashResume, loop>>

\* The process is restarted while the run is suspended at a gate.  State is
\* loaded from the latest checkpoint of the thread; the superstep's tasks,
\* their pending writes and the pending interrupt are in the checkpoint
\* database too and the cache files are on disk; the module globals of the
\* process start again from their literals.
Restart ==
    /\ \E n \in interrupted : Paused(n)
    /\ state' = checkpoint_get(checkpoint, thread)
    /\ config_VIDEO_URLS' = VIDEO_URLS
    /\ crashResume' = IF "outfit_reviewer" \in interrupted THEN "restarted" ELSE crashResume
    /\ UNCHANGED <<frontier, writes, interrupted, payload, files, run, merged, recorded,
                   lastDesign, stayed, thread, fileWriter, loop, checkpoint>>

\* The run has ended and the host starts the next run, with a new thread_id,
\* in the same process and the same data directory.
NewRun ==
    /\ run = "done"
    /\ thread < MaxRuns
    /\ thread' = thread + 1
    /\ state' = InitialState
    /\ frontier' = {"user_input_collector"}
    /\ writes' = EmptyDict
    /\ interrupted' = {}
    /\ payload' = NoPayload
    /\ run' = "running"
    /\ merged' = {}
    /\ recorded' = None
    /\ lastDesign' = NoDesign
    /\ stayed' = FALSE
    /\ crashResume' = "none"
    /\ checkpoint' = checkpoint_put(checkpoint, thread', state')
    /\ UNCHANGED <<files, config_VIDEO_URLS, fileWriter, loop>>

\* The steps of one run.
NextRun ==
    \/ UserInputInterrupt
    \/ UserInputResume
    \/ DataCollector
    \/ ContentAnalyzer
    \/ VideoAnalyzer
    \/ Coordination
    \/ FinalProcessor
    \/ OutfitDesigner
    \/ OutfitReviewer
    \/ ReviewResume
    \/ VideoGenerator
    \/ Commit
    \/ Restart

Next ==
    \/ NextRun
    \/ NewRun

Spec == Init /\ [][Next]_vars

\* Tasks that are ready are executed and a finished superstep is committed;
\* nothing obliges the human to answer a gate or the host to start a run.
Scheduled ==
    \/ DataCollector
    \/ ContentAnalyzer
    \/ VideoAnalyzer
    \/ Coordination
    \/ FinalProcessor
    \/ OutfitDesigner
    \/ OutfitReviewer
    \/ VideoGenerator
    \/ Commit

\* One run, from its start to its end or to a gate nobody answers.
SpecLive == Init /\ [][NextRun]_vars /\ WF_vars(Scheduled)

----------------------------------------------------------------------------
(* The router alone, applied to every shape of the Review Decision *)

RouterDecisions ==
    { [decision_type |-> dt, rejection_feedback |-> fb, edit_instructions |-> ins,
       selected_outfit_ids |-> sel] :
        dt \in {"approve", "reject", "edit", "maybe", "", "APPROVE"},
        fb \in {"", "not aligned"}, ins \in {"", "more colour"},
        sel \in {<<>>, <<"outfit_0">>} }
    \cup {EmptyDict, [rejection_feedback |-> "no tag"]}

RouterStatuses == {"pending", "edit_requested", "completed", "rejected"}

RouterStates ==
    { merge_dicts(InitialState,
                  [outfit_review_decision |-> d,
                   execution_status |-> [outfit_reviewer |-> st]]) :
        d \in RouterDecisions, st \in RouterStatuses }
    \cup { merge_dicts(InitialState, [execution_status |-> [outfit_reviewer |-> st]]) :
             st \in RouterStatuses }

InitRouter ==
    /\ state \in RouterStates
    /\ frontier = {"outfit_reviewer"}
    /\ writes = EmptyDict
    /\ interrupted = {}
    /\ payload = NoPayload
    /\ files = EmptyDict
    /\ run = "running"
    /\ merged = {}
    /\ recorded = None
    /\ lastDesign = NoDesign
    /\ stayed = FALSE
    /\ config_VIDEO_URLS = VIDEO_URLS
    /\ thread = 1
    /\ fileWriter = EmptyDict
    /\ crashResume = "none"
    /\ loop = NoLoop
    /\ checkpoint = checkpoint_put(NoCheckpoint, thread, state)

\* outfit_reviewer has returned without an update; its router is evaluated.
RouteReview ==
    /\ Ready("outfit_reviewer")
    /\ writes' = Finished("outfit_reviewer", EmptyDict, <<>>)
    /\ UNCHANGED <<state, frontier, interrupted, payload, files, run, merged, recorded,
                   lastDesign, stayed>>
    /\ UNCHANGED hostVars

NextRouter ==
    \/ RouteReview
    \/ Commit

SpecRouter == InitRouter /\ [][NextRouter]_vars

----------------------------------------------------------------------------
(* The retry loops around the remote agent call.  A message is the sequence  *)
(* of its characters; a delay is a number of milliseconds.                   *)

MAX_RETRIES == 3
BASE_DELAY == 22

Msg429Hint == <<"4","2","9"," ","r","e","t","r","y"," ","i","n"," ","2",".","5","s">>
MsgQuota == <<"Q","u","o","t","a"," ","e","x","c","e","e","d","e","d">>
MsgConnection == <<"c","o","n","n","e","c","t","i","o","n"," ","l","o","s","t">>
MsgGenerate == <<"f","a","i","l","e","d"," ","t","o"," ","g","e","n","e","r","a","t","e">>
MsgUsage == <<"n","o"," ","a","t","t","r","i","b","u","t","e"," ","'","g","e","t","'">>

\* What one remote call can end with.  kind says what happened at the remote
\* end and retry_after the delay the server asked for; the loops see the type
\* of the exception (asyncio.TimeoutError or another) and its message only.
\* A successful call carries usage metadata, which reads well ("valid") or
\* makes the code that reads and records it raise ("malformed").
RemoteResults ==
    { [kind |-> "ok", usage |-> "valid"],
      [kind |-> "ok", usage |-> "malformed"],
      [kind |-> "timeout"],
      [kind |-> "rate_limited", message |-> Msg429Hint, retry_after |-> 2500],
      [kind |-> "rate_limited", message |-> MsgQuota],
      [kind |-> "fatal", message |-> MsgConnection],
      [kind |-> "fatal", message |-> MsgGenerate] }

UpperCase ==
    <<"A","B","C","D","E","F","G","H","I","J","K","L","M",
      "N","O","P","Q","R","S","T","U","V","W","X","Y","Z">>
LowerCase ==
    <<"a","b","c","d","e","f","g","h","i","j","k","l","m",
      "n","o","p","q","r","s","t","u","v","w","x","y","z">>

\* str.lower()
Lower(msg) ==
    [i \in 1..Len(msg) |->
        IF \E j \in 1..Len(UpperCase) : UpperCase[j] = msg[i]
        THEN LowerCase[CHOOSE j \in 1..Len(UpperCase) : UpperCase[j] = msg[i]]
        ELSE msg[i]]

\* pat in msg
Contains(msg, pat) ==
    \E i \in 1..(Len(msg) - Len(pat) + 1) : SubSeq(msg, i, i + Len(pat) - 1) = pat

\* "429" in error_str or "quota" in error_str.lower() or "rate" in error_str.lower()
IsRateLimit(error_str) ==
    \/ Contains(error_str, <<"4","2","9">>)
    \/ Contains(Lower(error_str), <<"q","u","o","t","a">>)
    \/ Contains(Lower(error_str), <<"r","a","t","e">>)

DigitChars == <<"0","1","2","3","4","5","6","7","8","9">>

IsDigit(c) == \E d \in 1..Len(DigitChars) : DigitChars[d] = c

DigitValue(c) == (CHOOSE d \in 1..Len(DigitChars) : DigitChars[d] = c) - 1

\* The length of the longest run of [\d.] characters of msg that starts at j.
RECURSIVE RunLength(_, _)
RunLength(msg, j) ==
    IF j <= Len(msg) /\ (IsDigit(msg[j]) \/ msg[j] = ".")
    THEN 1 + RunLength(msg, j + 1)
    ELSE 0

RetryIn == <<"r","e","t","r","y"," ","i","n"," ">>

\* re.search(r"retry in ([\d.]+)s", error_str) matches at position i
MatchesAt(msg, i) ==
    LET j == i + Len(RetryIn)
        n == RunLength(msg, j)
    IN /\ i + Len(RetryIn) - 1 <= Len(msg)
       /\ SubSeq(msg, i, j - 1) = RetryIn
       /\ n >= 1
       /\ j + n <= Len(msg)
       /\ msg[j + n] = "s"

\* delay_match.group(1) of the leftmost match, <<>> when there is no match
delay_match(error_str) ==
    IF \E i \in 1..Len(error_str) : MatchesAt(error_str, i)
    THEN LET i == CHOOSE k \in 1..Len(error_str) :
                     /\ MatchesAt(error_str, k)
                     /\ \A m \in 1..(k - 1) : ~MatchesAt(error_str, m)
             j == i + Len(RetryIn)
         IN SubSeq(error_str, j, j + RunLength(error_str, j) - 1)
    ELSE <<>>

RECURSIVE DecimalValue(_)
DecimalValue(digits) ==
    IF Len(digits) = 0 THEN 0
    ELSE 10 * DecimalValue(SubSeq(digits, 1, Len(digits) - 1)) + DigitValue(digits[Len(digits)])

\* float(text) in milliseconds, for at most three decimals; ok is FALSE where
\* float() raises ValueError (no digit, or more than one point).
float(text) ==
    LET points == {i \in 1..Len(text) : text[i] = "."}
        point == IF points = {} THEN Len(text) + 1 ELSE CHOOSE i \in points : TRUE
        whole == SubSeq(text, 1, point - 1)
        decimals == SubSeq(text, point + 1, Len(text))
        padded == SubSeq(decimals \o <<"0","0","0">>, 1, 3)
    IN IF Cardinality(points) > 1 \/ Len(whole) + Len(decimals) = 0
       THEN [ok |-> FALSE, value |-> 0]
       ELSE [ok |-> TRUE, value |-> 1000 * DecimalValue(whole) + DecimalValue(padded)]

\* The stages whose loop is the body of an isolated agent task, and the
\* stages whose loop is written in the node itself.
TaskLoopStages == {"data_collector", "content_analyzer", "video_analyzer"}
InlineLoopStages == {"final_processor", "outfit_designer"}

\* SCRAPER_TOOL_NAMES
SCRAPER_TOOL_NAMES == {"scrape_toi_fashion", "scrape_webpage_with_images", "get_webpage_summary"}

\* What getting the tools of a stage's MCP server can meet: the client is
\* created and the server lists its tools, creating the client fails, or the
\* discovery of the tools fails.
McpOutcomes ==
    { [status |-> "ok", served |-> <<"scrape_toi_fashion", "search_web">>],
      [status |-> "ok", served |-> <<"search_web">>],
      [status |-> "client_error"],
      [status |-> "discovery_error"] }

\* The tool getters: raised says whether the call raised, tools is the list returned.
get_scraper_tools(mcp) ==
    IF mcp.status = "ok"
    THEN LET tools == mcp.served
             filtered == SelectSeq(tools, LAMBDA tool : tool \in SCRAPER_TOOL_NAMES)
         IN [raised |-> FALSE, tools |-> IF Len(filtered) > 0 THEN filtered ELSE tools]
    ELSE [raised |-> FALSE, tools |-> <<>>]

get_tools_unguarded(mcp) ==
    IF mcp.status = "ok"
    THEN [raised |-> FALSE, tools |-> mcp.served]
    ELSE [raised |-> TRUE, tools |-> <<>>]

get_image_tools(mcp) ==
    IF mcp.status = "ok"
    THEN [raised |-> FALSE, tools |-> mcp.served]
    ELSE [raised |-> FALSE, tools |-> <<>>]

get_video_tools(mcp) ==
    IF mcp.status = "ok"
    THEN [raised |-> FALSE, tools |-> mcp.served]
    ELSE [raised |-> FALSE, tools |-> <<>>]

\* get_mcp_outfit returns None when the client cannot be created.
get_outfit_tools(mcp) ==
    IF mcp.status = "client_error" THEN [raised |-> FALSE, tools |-> <<>>]
    ELSE IF mcp.status = "ok" THEN [raised |-> FALSE, tools |-> mcp.served]
    ELSE [raised |-> FALSE, tools |-> <<>>]

\* An agent made by create_agent with these tools; fallback says that the
\* builder's except branch made it.
Agent(tools, fallback) == [raised |-> FALSE, tools |-> tools, fallback |-> fallback]

FallbackAgent == Agent(<<>>, TRUE)

BuildFailed == [raised |-> TRUE, tools |-> <<>>, fallback |-> FALSE]

build_agent1_modern(mcp) ==
    LET got == get_scraper_tools(mcp) IN
    IF got.raised THEN FallbackAgent ELSE Agent(got.tools, FALSE)

\* The except branch re-raises: no content analysis without its agent.
build_agent2_modern(mcp) ==
    LET got == get_image_tools(mcp) IN
    IF got.raised THEN BuildFailed ELSE Agent(got.tools, FALSE)

build_agent3_modern(mcp) ==
    LET got == get_video_tools(mcp) IN
    IF got.raised THEN FallbackAgent ELSE Agent(got.tools, FALSE)

\* tools = []: the final synthesis uses no MCP server.
build_agent4_modern(mcp) == Agent(<<>>, FALSE)

build_agent5_modern(mcp) ==
    LET got == get_outfit_tools(mcp) IN
    IF got.raised THEN FallbackAgent ELSE Agent(got.tools, FALSE)

BuilderOf(stage, mcp) ==
    IF stage = "data_collector" THEN build_agent1_modern(mcp)
    ELSE IF stage = "content_analyzer" THEN build_agent2_modern(mcp)
    ELSE IF stage = "video_analyzer" THEN build_agent3_modern(mcp)
    ELSE IF stage = "final_processor" THEN build_agent4_modern(mcp)
    ELSE build_agent5_modern(mcp)

\* The stage is entered: no agent yet, no attempt made.  built counts the
\* agents built, mcp lists what each build met at the MCP server, client says
\* whether the MCP client singleton exists, and used[i] is the number of the
\* agent that the i-th remote call went to.
StartLoop(stage) ==
    [status |-> IF stage = "outfit_designer" THEN "running" ELSE "building",
     stage |-> stage, attempt |-> 0, calls |-> <<>>, slept |-> <<>>,
     error |-> [kind |-> "none"],
     built |-> 0, agent |-> [tools |-> <<>>, fallback |-> FALSE], mcp |-> <<>>,
     client |-> FALSE, used |-> <<>>]

\* agent = await build_agentN_modern()
Build(l, mcp) ==
    LET made == BuilderOf(l.stage, mcp) IN
    IF made.raised
    THEN [l EXCEPT !.status = "raised",
                   !.mcp = Append(@, mcp),
                   !.error = [kind |-> "Exception", message |-> <<"tools">>]]
    ELSE [l EXCEPT !.status = "running",
                   !.built = @ + 1,
                   !.agent = [tools |-> made.tools, fallback |-> made.fallback],
                   !.mcp = IF l.stage = "final_processor" THEN @ ELSE Append(@, mcp),
                   !.client = @ \/ (l.stage # "final_processor" /\ mcp.status # "client_error")]

\* await asyncio.sleep(delay); continue -- the for loop goes to its next
\* attempt, or ends without a result when the range is used up.
SleepAndContinue(l, r, delay, range) ==
    [l EXCEPT !.calls = Append(@, r),
              !.used = Append(@, l.built),
              !.slept = Append(@, delay),
              !.attempt = @ + 1,
              !.status = IF l.attempt + 1 < range THEN "running" ELSE "fell_through"]

Return(l, r) ==
    [l EXCEPT !.calls = Append(@, r), !.used = Append(@, l.built), !.status = "returned"]

Raise(l, r, e) ==
    [l EXCEPT !.calls = Append(@, r), !.used = Append(@, l.built), !.status = "raised",
              !.error = e]

\* The stages whose success path reads the usage metadata of the result and
\* records it with token_tracker, inside the try of the attempt.
UsageStages == {"data_collector", "video_analyzer"}

\* Mutant: a timeout is retried on the last attempt too, so the for loop can
\* run out of its range.
run_agent_attempt_retry_past_last(l, r) ==
    IF r.kind = "ok" THEN Return(l, r)
    ELSE IF r.kind = "timeout"
    THEN SleepAndContinue(l, r, 1000 * BASE_DELAY, MAX_RETRIES + 1)
    ELSE Raise(l, r, [kind |-> "Exception", message |-> r.message])

\* One pass of `for attempt in range(MAX_RETRIES + 1)` in run_data_collector_agent,
\* run_content_analyzer_agent and run_video_analyzer_agent, the remote call
\* ending with r.
run_agent_attempt(l, r) ==
    LET attempt == l.attempt
        usageRaises == r.kind = "ok" /\ l.stage \in UsageStages /\ r.usage = "malformed"
    IN
    IF r.kind = "ok" /\ ~usageRaises THEN Return(l, r)
    ELSE IF r.kind = "timeout"
    THEN IF attempt < MAX_RETRIES
         THEN SleepAndContinue(l, r, 1000 * BASE_DELAY, MAX_RETRIES + 1)
         ELSE Raise(l, r, [kind |-> "RuntimeError",
                           message |-> <<"exceeded max retries due to timeouts">>])
    ELSE LET error_str == IF usageRaises THEN MsgUsage ELSE r.message IN
         IF IsRateLimit(error_str)
         THEN IF attempt < MAX_RETRIES
              THEN LET group == delay_match(error_str) IN
                   IF Len(group) > 0
                   THEN IF float(group).ok
                        THEN SleepAndContinue(l, r, float(group).value, MAX_RETRIES + 1)
                        ELSE Raise(l, r, [kind |-> "ValueError", message |-> group])
                   ELSE SleepAndContinue(l, r, 1000 * BASE_DELAY * (2 ^ attempt),
                                         MAX_RETRIES + 1)
              ELSE Raise(l, r, [kind |-> "Exception", message |-> error_str])
         ELSE Raise(l, r, [kind |-> "Exception", message |-> error_str])

\* One pass of `for attempt in range(MAX_RETRIES)` in final_processor_node and
\* outfit_designer_node: one handler for every exception.  outfit_designer
\* builds its agent at the start of every pass, final_processor before the loop.
inline_attempt(l0, mcp, r) ==
    LET l == IF l0.stage = "outfit_designer" THEN Build(l0, mcp) ELSE l0
        attempt == l.attempt
    IN
    IF r.kind = "ok" THEN Return(l, r)
    ELSE IF attempt < MAX_RETRIES - 1
    THEN SleepAndContinue(l, r, 1000 * BASE_DELAY * (2 ^ attempt), MAX_RETRIES)
    ELSE Raise(l, r, IF r.kind = "timeout"
                     THEN [kind |-> "TimeoutError", message |-> <<>>]
                     ELSE [kind |-> "Exception", message |-> r.message])

\* What the node makes of the loop's end: the outcome its return value is built from.
LoopOutcome(l) == IF l.status = "returned" THEN "ok" ELSE "error"

InitRetry ==
    /\ loop \in {StartLoop(stage) : stage \in TaskLoopStages \cup InlineLoopStages}
    /\ state = InitialState
    /\ frontier = {loop.stage}
    /\ writes = EmptyDict
    /\ interrupted = {}
    /\ payload = NoPayload
    /\ files = EmptyDict
    /\ run = "running"
    /\ merged = {}
    /\ recorded = None
    /\ lastDesign = NoDesign
    /\ stayed = FALSE
    /\ config_VIDEO_URLS = VIDEO_URLS
    /\ thread = 1
    /\ fileWriter = EmptyDict
    /\ crashResume = "none"
    /\ checkpoint = checkpoint_put(NoCheckpoint, thread, state)

graphVars ==
    <<state, frontier, writes, interrupted, payload, files, run, merged, recorded, lastDesign,
      stayed, config_VIDEO_URLS, thread, fileWriter, crashResume, checkpoint>>

\* What the MCP server can answer now: the client singleton, once created,
\* is not created again.
McpNow(l) == {mcp \in McpOutcomes : mcp.status = "client_error" => ~l.client}

\* The agent is built ahead of the loop.
BuildAgent ==
    /\ loop.status = "building"
    /\ \E mcp \in McpNow(loop) : loop' = Build(loop, mcp)
    /\ UNCHANGED graphVars

AgentTaskAttempt ==
    /\ loop.status = "running"
    /\ loop.stage \in TaskLoopStages
    /\ \E r \in RemoteResults : loop' = run_agent_attempt(loop, r)
    /\ UNCHANGED graphVars

InlineAttempt ==
    /\ loop.status = "running"
    /\ loop.stage \in InlineLoopStages
    /\ \E mcp \in McpNow(loop), r \in RemoteResults : loop' = inline_attempt(loop, mcp, r)
    /\ UNCHANGED graphVars

NextRetry ==
    \/ BuildAgent
    \/ AgentTaskAttempt
    \/ InlineAttempt

SpecRetry == InitRetry /\ [][NextRetry]_vars

----------------------------------------------------------------------------
(* The merge of the updates of two parallel branches into State.  A value   *)
(* written by a branch is the branch's name, a value of the base is "base". *)

\* The two branches that user_input_collector triggers.
MergeBranches == {"data_collector", "video_analyzer"}

InnerKeys == {"last_analysis", "processed_videos"}

\* The per-agent memories written by w: for some agents, some inner keys.
InnerDicts(w) == {[k \in ks |-> w] : ks \in (SUBSET InnerKeys) \ {{}}}

Memories(w) == UNION {[as -> InnerDicts(w)] : as \in SUBSET MergeBranches}

\* The execution_status or errors entries written by w.
FlatDicts(w) == {[n \in ns |-> w] : ns \in SUBSET MergeBranches}

\* A State with one field populated.
MergeBases ==
    {[InitialState EXCEPT !["agent_memories"] = m] : m \in Memories("base")}
    \cup {[InitialState EXCEPT ![k] = <<"base">>] : k \in AppendFields}
    \cup {[InitialState EXCEPT ![k] = d] : k \in DictMergeFields, d \in FlatDicts("base")}
    \cup {merge_dicts(InitialState, k :> "base") : k \in OverwriteFields}

\* The partial updates branch n can return: nothing, or one field.
BranchUpdates(n) ==
    {EmptyDict}
    \cup {[agent_memories |-> m] : m \in Memories(n)}
    \cup {k :> <<n>> : k \in AppendFields}
    \cup {k :> <<>> : k \in AppendFields}
    \cup {k :> d : k \in DictMergeFields, d \in FlatDicts(n)}
    \cup {k :> n : k \in OverwriteFields}

InitMerge ==
    /\ state \in MergeBases
    /\ frontier = MergeBranches
    /\ writes = EmptyDict
    /\ interrupted = {}
    /\ payload = NoPayload
    /\ files = EmptyDict
    /\ run = "running"
    /\ merged = {}
    /\ recorded = None
    /\ lastDesign = NoDesign
    /\ stayed = FALSE
    /\ config_VIDEO_URLS = VIDEO_URLS
    /\ thread = 1
    /\ fileWriter = EmptyDict
    /\ crashResume = "none"
    /\ loop = NoLoop
    /\ checkpoint = checkpoint_put(NoCheckpoint, thread, state)

\* One of the branches finishes, in any order, with one of its updates.
BranchReturns ==
    /\ \E n \in MergeBranches :
          /\ Ready(n)
          /\ \E u \in BranchUpdates(n) : writes' = Finished(n, u, <<>>)
    /\ UNCHANGED <<state, frontier, interrupted, payload, files, run, merged, recorded,
                   lastDesign, stayed>>
    /\ UNCHANGED hostVars

NextMerge ==
    \/ BranchReturns
    \/ Commit

SpecMerge == InitMerge /\ [][NextMerge]_vars

----------------------------------------------------------------------------
(* The merge of agent_memories whose inner values are mappings themselves. *)

\* The values an inner key can hold: a mapping with one of two keys, written by w.
NestedValues(w) == {[count |-> w], [seen |-> w]}

NestedDicts(w) ==
    UNION {[ks -> NestedValues(w)] : ks \in (SUBSET InnerKeys) \ {{}}}

NestedMemories(w) == UNION {[as -> NestedDicts(w)] : as \in SUBSET MergeBranches}

InitNested ==
    /\ state \in {[InitialState EXCEPT !["agent_memories"] = m] : m \in NestedMemories("base")}
    /\ frontier = {"video_generator"}
    /\ writes = EmptyDict
    /\ interrupted = {}
    /\ payload = NoPayload
    /\ files = EmptyDict
    /\ run = "running"
    /\ merged = {}
    /\ recorded = None
    /\ lastDesign = NoDesign
    /\ stayed = FALSE
    /\ config_VIDEO_URLS = VIDEO_URLS
    /\ thread = 1
    /\ fileWriter = EmptyDict
    /\ crashResume = "none"
    /\ loop = NoLoop
    /\ checkpoint = checkpoint_put(NoCheckpoint, thread, state)

\* The last stage returns an agent_memories update.
MemoryReturns ==
    /\ Ready("video_generator")
    /\ \E m \in NestedMemories("update") :
          writes' = Finished("video_generator", [agent_memories |-> m], <<>>)
    /\ UNCHANGED <<state, frontier, interrupted, payload, files, run, merged, recorded,
                   lastDesign, stayed>>
    /\ UNCHANGED hostVars

NextNested ==
    \/ MemoryReturns
    \/ Commit

SpecNested == InitNested /\ [][NextNested]_vars

----------------------------------------------------------------------------
(* Properties *)

ExecutionStatus(s, n) == Get(Get(s, "execution_status", EmptyDict), n, None)

DecisionType(s) == Get(Get(s, "outfit_review_decision", EmptyDict), "decision_type", None)

HasError(s, n) == n \in DOMAIN Get(s, "errors", EmptyDict)

\* The superstep's updates are being merged in this step.
Merging == DOMAIN writes # {} /\ DOMAIN writes' = {}

\* outfit_reviewer has finished in this superstep after consuming a resume value.
Reviewed == "outfit_reviewer" \in DOMAIN writes /\ Len(writes["outfit_reviewer"].resume) > 0

ReviewValue == writes["outfit_reviewer"].resume[1]

\* A resume value with no usable decision: ill-typed, no tag, an unknown tag,
\* a reject without feedback or an edit without instructions.
InvalidReviewValue(v) ==
    \/ ~v.wellTyped
    \/ "decision_type" \notin DOMAIN v.fields
    \/ /\ "decision_type" \in DOMAIN v.fields
       /\ \/ v.fields["decision_type"] \notin {"approve", "reject", "edit"}
          \/ v.fields["decision_type"] = "reject" /\ Get(v.fields, "rejection_feedback", "") = ""
          \/ v.fields["decision_type"] = "edit" /\ Get(v.fields, "edit_instructions", "") = ""

\* An edit without instructions or a reject without feedback.
MissingMandatoryField(v) ==
    /\ v.wellTyped
    /\ "decision_type" \in DOMAIN v.fields
    /\ \/ v.fields["decision_type"] = "reject" /\ Get(v.fields, "rejection_feedback", "") = ""
       \/ v.fields["decision_type"] = "edit" /\ Get(v.fields, "edit_instructions", "") = ""

\* C1: coordination executes only after both content_analyzer and
\* video_analyzer have completed and their updates have been merged into State.
C1_CoordinationAfterBoth ==
    "coordination" \in DOMAIN writes =>
        {"content_analyzer", "video_analyzer"} \subseteq merged

\* C2: when the resume value given to outfit_reviewer carries no valid
\* decision, the router returns the stay label: only outfit_reviewer is next.
C2_InvalidReviewStays ==
    (Reviewed /\ InvalidReviewValue(ReviewValue)) =>
        writes["outfit_reviewer"].goto = {"outfit_reviewer"}

\* C3: video_generator is a task only when the last decision outfit_reviewer
\* recorded is approve.
C3_VideoOnlyAfterApprove ==
    "video_generator" \in frontier => recorded = "approve"

C3_Witness ==
    /\ "video_generator" \in DOMAIN writes
    /\ recorded = "approve"
    /\ "outfit_designer" \in merged

\* C4: the router sends approve to video_generator, reject to END, edit to
\* outfit_designer, and every other or absent decision back to outfit_reviewer.
C4_RouteTable ==
    "outfit_reviewer" \in DOMAIN writes =>
        LET tagged == /\ "outfit_review_decision" \in DOMAIN state
                      /\ "decision_type" \in DOMAIN state["outfit_review_decision"]
            goto == writes["outfit_reviewer"].goto
        IN
        /\ (tagged /\ state["outfit_review_decision"]["decision_type"] = "approve")
              => goto = {"video_generator"}
        /\ (tagged /\ state["outfit_review_decision"]["decision_type"] = "reject")
              => goto = {}
        /\ (tagged /\ state["outfit_review_decision"]["decision_type"] = "edit")
              => goto = {"outfit_designer"}
        /\ (tagged /\ state["outfit_review_decision"]["decision_type"]
                          \notin {"approve", "reject", "edit"})
              => goto = {"outfit_reviewer"}
        /\ ~tagged => goto = {"outfit_reviewer"}

C4_Witness ==
    /\ "outfit_reviewer" \in DOMAIN writes
    /\ DecisionType(state) = "maybe"
    /\ writes["outfit_reviewer"].goto = {"outfit_reviewer"}

\* C5: an outfit_reviewer task that the stay label put in the superstep pauses
\* at the gate and consumes a resume value before its router is evaluated.
C5_StayPauses ==
    (stayed /\ "outfit_reviewer" \in DOMAIN writes) =>
        Len(writes["outfit_reviewer"].resume) > 0

\* C6: when the update of an outfit_designer invocation entered with an edit
\* decision is merged, State has the decision cleared and
\* execution_status[outfit_reviewer] = pending.
C6_EditReentryClears ==
    [][ (Merging /\ "outfit_designer" \in DOMAIN writes /\ DecisionType(state) = "edit")
          => /\ IsEmptyDict(Get(state', "outfit_review_decision", EmptyDict))
             /\ ExecutionStatus(state', "outfit_reviewer") = "pending" ]_vars

PayloadNames == [i \in 1..Len(payload.outfits) |-> payload.outfits[i].name]

\* C7: at a review gate raised after an edit cycle the payload lists the
\* outfits of the most recent outfit_designer invocation.
C7_PayloadShowsLatestDesign ==
    (Paused("outfit_reviewer") /\ lastDesign.revision) =>
        PayloadNames = OutfitNames(lastDesign.outfits)

BranchNodes == {"data_collector", "content_analyzer", "video_analyzer"}

\* C8: when coordination or final_processor runs, execution_status holds the
\* entries of data_collector, content_analyzer and video_analyzer, and errors
\* holds the entry of each of them that failed.
C8_BranchEntriesAtBarrier ==
    ("coordination" \in DOMAIN writes \/ "final_processor" \in DOMAIN writes) =>
        \A n \in BranchNodes :
            /\ ExecutionStatus(state, n) # None
            /\ ExecutionStatus(state, n) = "failed" => HasError(state, n)

\* C9: a failed branch does not stop its sibling (all branch stages have run
\* when final_processor is reached or the run ends), and coordination runs
\* only after both branches have finished.
C9_SiblingCompletesBeforeBarrier ==
    /\ ("final_processor" \in frontier \/ run = "done") => BranchNodes \subseteq merged
    /\ ("coordination" \in DOMAIN writes
          /\ \E n \in BranchNodes : ExecutionStatus(state, n) = "failed")
         => BranchNodes \subseteq merged

\* C10: for an edit without instructions or a reject without feedback the
\* merged State has an errors[outfit_reviewer] entry, the same
\* outfit_review_decision as before, and execution_status[outfit_reviewer]
\* other than completed.
C10_MissingFieldRejected ==
    [][ (Merging /\ Reviewed /\ MissingMandatoryField(ReviewValue))
          => /\ HasError(state', "outfit_reviewer")
             /\ ("outfit_review_decision" \in DOMAIN state')
                    = ("outfit_review_decision" \in DOMAIN state)
             /\ "outfit_review_decision" \in DOMAIN state
                    => state'["outfit_review_decision"] = state["outfit_review_decision"]
             /\ ExecutionStatus(state', "outfit_reviewer") # "completed" ]_vars

C10_Witness ==
    /\ Reviewed
    /\ MissingMandatoryField(ReviewValue)
    /\ ReviewValue.fields["decision_type"] = "edit"
    /\ HasError(ApplyUpdate(state, writes["outfit_reviewer"].update), "outfit_reviewer")

\* C11: a run suspended at the review gate whose process is restarted and
\* which is then resumed with a reject carrying feedback ends with
\* execution_status[outfit_reviewer] = rejected and video_generator never run.
C11_CrashResumeRejects ==
    (crashResume = "rejected") ~>
        (/\ run = "done"
         /\ ExecutionStatus(state, "outfit_reviewer") = "rejected"
         /\ "video_generator" \notin merged)

C11_Witness ==
    /\ crashResume = "rejected"
    /\ run = "done"
    /\ ExecutionStatus(state, "outfit_reviewer") = "rejected"
    /\ "video_generator" \notin merged

\* The update u is what the gate of node n makes of the resume value v: the
\* review gate records a decision only for a valid value and an error
\* otherwise, the input gate passes on the fields of a well-typed value.
Validated(n, v, u) ==
    IF n = "outfit_reviewer"
    THEN IF InvalidReviewValue(v)
         THEN /\ "outfit_review_decision" \notin DOMAIN u
              /\ "errors" \in DOMAIN u
              /\ "outfit_reviewer" \in DOMAIN u["errors"]
         ELSE /\ "outfit_review_decision" \in DOMAIN u
              /\ u["outfit_review_decision"]["decision_type"] = v.fields["decision_type"]
    ELSE /\ "user_input" \in DOMAIN u
         /\ v.wellTyped =>
               \A k \in DOMAIN v.fields : u["user_input"][k] = v.fields[k]
         /\ ~v.wellTyped => Len(u["user_input"]["custom_urls"]) = 0

\* C12: the step that resumes a suspended run executes the node that raised
\* the interrupt and no other, in the superstep that was suspended, and the
\* update it leaves is the node's validation of the resume value.
C12_ResumeReentersSameStage ==
    [][ (interrupted' # interrupted /\ interrupted' \subseteq interrupted) =>
          \E n \in interrupted \ interrupted' :
              /\ n \notin DOMAIN writes
              /\ DOMAIN writes' = DOMAIN writes \cup {n}
              /\ frontier' = frontier
              /\ state' = state
              /\ Len(writes'[n].resume) = 1
              /\ Validated(n, writes'[n].resume[1], writes'[n].update) ]_vars

C12_Witness ==
    /\ Reviewed
    /\ ReviewValue.wellTyped
    /\ Get(ReviewValue.fields, "decision_type", None) = "maybe"
    /\ "outfit_review_decision" \notin DOMAIN writes["outfit_reviewer"].update
    /\ writes["outfit_reviewer"].goto \cap {"video_generator"} = {}

\* The label the router returns for a valid decision tag.
LabelOf(tag) ==
    CASE tag = "approve" -> {"video_generator"}
      [] tag = "reject" -> {}
      [] tag = "edit" -> {"outfit_designer"}

\* C13: an outfit_reviewer task of a cycle entered after an edit or a stay
\* pauses and consumes a resume value of its own, and that value alone decides
\* where the cycle goes: an invalid one stays, a valid one takes its label.
C13_FreshValueEachCycle ==
    ((stayed \/ recorded = "edit") /\ "outfit_reviewer" \in DOMAIN writes) =>
        /\ Len(writes["outfit_reviewer"].resume) > 0
        /\ IF InvalidReviewValue(ReviewValue)
           THEN writes["outfit_reviewer"].goto = {"outfit_reviewer"}
           ELSE writes["outfit_reviewer"].goto = LabelOf(ReviewValue.fields["decision_type"])

\* The stages that load a cache file, each with its file.
CacheOf ==
    [content_analyzer |-> ContentCache, final_processor |-> TrendCache,
     outfit_designer |-> OutfitCache]

\* C14: what a stage returns comes from its own run: video_analyzer analyses
\* the configured videos and the run's own custom videos, and a stage that
\* completes with its cache file present has a file this run wrote (or one
\* that was in the data directory before the host's first run).
C14_NoCrossRunData ==
    /\ ("video_analyzer" \in DOMAIN writes
          /\ ExecutionStatus(writes["video_analyzer"].update, "video_analyzer") = "completed")
        => writes["video_analyzer"].update.video_analysis[1].per_video_results
               = VIDEO_URLS \o Get(Get(state, "user_input", EmptyDict), "custom_videos", <<>>)
    /\ \A n \in DOMAIN CacheOf :
          (n \in DOMAIN writes
             /\ CacheOf[n] \in DOMAIN files
             /\ ExecutionStatus(writes[n].update, n) = "completed")
          => fileWriter[CacheOf[n]] \in {0, thread}

\* The stages that use what one predecessor produced, each with that predecessor.
HardPredecessor ==
    [content_analyzer |-> "data_collector", outfit_designer |-> "final_processor",
     outfit_reviewer |-> "outfit_designer"]

\* C15: content_analyzer, outfit_designer and outfit_reviewer are not executed
\* in a State that records their predecessor as failed.
C15_FailedPredecessorBlocks ==
    \A n \in DOMAIN HardPredecessor :
        n \in (DOMAIN writes) \cup interrupted
            => ExecutionStatus(state, HardPredecessor[n]) # "failed"

\* C16: every stage that State records as failed has its entry in errors.
C16_FailedHasError ==
    \A n \in Nodes : ExecutionStatus(state, n) = "failed" => HasError(state, n)

C16_Witness ==
    /\ run = "done"
    /\ ExecutionStatus(state, "data_collector") = "failed"
    /\ ExecutionStatus(state, "video_analyzer") = "failed"
    /\ ExecutionStatus(state, "final_processor") = "failed"
    /\ \A n \in {"data_collector", "video_analyzer", "final_processor"} : HasError(state, n)

\* The status a finished task of node n returns for itself.
Returned(n) == ExecutionStatus(writes[n].update, n)

\* C17: a stage that finds its upstream input absent (and has no cache file to
\* answer from) returns execution_status skipped.
C17_MissingInputSkips ==
    /\ ("content_analyzer" \in DOMAIN writes
          /\ ContentCache \notin DOMAIN files
          /\ Len(Get(Get(state, "data_collection", EmptyDict), "url_list", <<>>)) = 0)
        => Returned("content_analyzer") = "skipped"
    /\ ("video_analyzer" \in DOMAIN writes /\ Len(config_VIDEO_URLS) = 0)
        => Returned("video_analyzer") = "skipped"
    /\ ("final_processor" \in DOMAIN writes
          /\ TrendCache \notin DOMAIN files
          /\ Len(Get(state, "content_analysis", <<>>)) = 0)
        => Returned("final_processor") = "skipped"
    /\ ("outfit_designer" \in DOMAIN writes
          /\ (OutfitCache \notin DOMAIN files \/ DecisionType(state) = "edit")
          /\ IsEmptyDict(Get(Get(state, "final_processor", EmptyDict),
                              "trend_analysis", EmptyDict)))
        => Returned("outfit_designer") = "skipped"
    /\ ("video_generator" \in DOMAIN writes /\ Len(Get(state, "outfit_designs", <<>>)) = 0)
        => Returned("video_generator") = "skipped"

\* Every remote call the loop has made timed out.
AllTimedOut == \A i \in 1..Len(loop.calls) : loop.calls[i].kind = "timeout"

\* C18: a remote call that times out on every attempt is attempted MAX_RETRIES
\* (3) times and no more, and the loop then ends with the 'exceeded max retries
\* due to timeouts' error.
C18_TimeoutsExhaustAfterThree ==
    (loop.status \notin {"idle", "building"} /\ AllTimedOut) =>
        /\ Len(loop.calls) <= MAX_RETRIES
        /\ loop.status # "running" =>
              /\ Len(loop.calls) = MAX_RETRIES
              /\ loop.status = "raised"
              /\ loop.error.kind = "RuntimeError"

\* C19: a failure that is neither a timeout nor a rate-limit signal ends the
\* loop: it is the last call the loop makes and the loop has raised.
C19_FatalNotRetried ==
    loop.status # "idle" =>
        \A i \in 1..Len(loop.calls) :
            loop.calls[i].kind = "fatal" => (i = Len(loop.calls) /\ loop.status = "raised")

\* The delay to wait after the failure r of the 0-based attempt k.
ExpectedDelay(r, k) ==
    IF r.kind = "timeout" THEN 1000 * BASE_DELAY
    ELSE IF "retry_after" \in DOMAIN r THEN r.retry_after
    ELSE 1000 * BASE_DELAY * (2 ^ k)

\* C20: a timeout or a rate-limited failure on an attempt before the last
\* allowed one is followed by a wait of the server's hint when there is one,
\* of BASE_DELAY * 2^k after a rate limit without a hint and of BASE_DELAY
\* after a timeout; two hinted rate limits and then a success return the
\* success after three attempts.
C20_BackoffDelays ==
    loop.status # "idle" =>
        /\ \A i \in 1..Len(loop.calls) :
              (loop.calls[i].kind \in {"timeout", "rate_limited"} /\ i < MAX_RETRIES) =>
                  /\ i <= Len(loop.slept)
                  /\ loop.slept[i] = ExpectedDelay(loop.calls[i], i - 1)
        /\ (/\ Len(loop.calls) = 3
            /\ \A i \in {1, 2} : "retry_after" \in DOMAIN loop.calls[i]
            /\ loop.calls[3].kind = "ok")
           => (loop.status = "returned" /\ LoopOutcome(loop) = "ok")

\* The loop has raised on the last attempt its range allows.
Exhausted ==
    /\ loop.status = "raised"
    /\ Len(loop.calls) = (IF loop.stage \in TaskLoopStages THEN MAX_RETRIES + 1 ELSE MAX_RETRIES)

LastCall == loop.calls[Len(loop.calls)]

\* C21: a loop that has used up its attempts raises an error naming the cause:
\* the 'exceeded max retries due to timeouts' error when the last failure was a
\* timeout, and a distinct 'exceeded max retries due to rate limiting' error
\* when the last failure was a rate limit.
C21_TerminalErrorNamesCause ==
    Exhausted =>
        /\ LastCall.kind = "timeout" =>
              /\ loop.error.kind = "RuntimeError"
              /\ loop.error.message = <<"exceeded max retries due to timeouts">>
        /\ LastCall.kind = "rate_limited" =>
              /\ loop.error.kind = "RuntimeError"
              /\ loop.error.message = <<"exceeded max retries due to rate limiting">>

\* C22: every attempt starts over with an agent (and MCP tool connection) of
\* its own -- the i-th remote call goes to the i-th agent built -- and a value
\* is returned from the one successful call only, which is the last one.
C22_AttemptReacquiresAgent ==
    loop.status \notin {"idle", "building"} =>
        /\ \A i \in 1..Len(loop.used) : loop.used[i] = i
        /\ loop.status = "returned" =>
              \A i \in 1..Len(loop.calls) : loop.calls[i].kind = "ok" <=> i = Len(loop.calls)

\* The agent_memories a branch's update carries, none when it writes none.
MemoryOf(n) == Get(writes[n].update, "agent_memories", EmptyDict)

\* Every (agent, inner key) entry of u is in m with u's value.
HasEntries(m, u) ==
    \A a \in DOMAIN u :
        /\ a \in DOMAIN m
        /\ \A k \in DOMAIN u[a] : k \in DOMAIN m[a] /\ m[a][k] = u[a][k]

\* u and v write no (agent, inner key) in common.
DisjointEntries(u, v) ==
    \A a \in (DOMAIN u) \cap (DOMAIN v) : (DOMAIN u[a]) \cap (DOMAIN v[a]) = {}

\* The entries of base that neither u nor v writes are in m unchanged.
KeepsBase(m, base, u, v) ==
    \A a \in DOMAIN base :
        /\ a \in DOMAIN m
        /\ \A k \in DOMAIN base[a] :
              /\ k \in DOMAIN m[a]
              /\ (k \notin DOMAIN Get(u, a, EmptyDict) /\ k \notin DOMAIN Get(v, a, EmptyDict))
                    => m[a][k] = base[a][k]

\* C23: when the updates of two branches write different agents, or different
\* inner keys of one agent, merging them into agent_memories in either order
\* gives a map with every entry of both and every untouched entry of the base.
C23_MemoriesKeepBoth ==
    (DOMAIN writes = MergeBranches
        /\ DisjointEntries(MemoryOf("data_collector"), MemoryOf("video_analyzer"))) =>
        \A order \in {<<"data_collector", "video_analyzer">>,
                       <<"video_analyzer", "data_collector">>} :
            LET m == ApplyAll(state, writes, order)["agent_memories"] IN
            /\ HasEntries(m, MemoryOf("data_collector"))
            /\ HasEntries(m, MemoryOf("video_analyzer"))
            /\ KeepsBase(m, state["agent_memories"],
                         MemoryOf("data_collector"), MemoryOf("video_analyzer"))

\* Both branches wrote inner keys of one agent and the merge kept both.
C23_Witness ==
    /\ merged = MergeBranches
    /\ \E a \in DOMAIN state["agent_memories"] :
          /\ DOMAIN state["agent_memories"][a] = InnerKeys
          /\ {state["agent_memories"][a][k] : k \in InnerKeys} = MergeBranches

\* The sequence branch n appends to field k, empty when it writes none.
AppendedBy(n, k) == Get(writes[n].update, k, <<>>)

\* C24: when the updates of the two branches are merged, every append field
\* is its base value followed by data_collector's items and then
\* video_analyzer's, whichever branch finished first.
C24_AppendOrderFixed ==
    [][ (Merging /\ DOMAIN writes = MergeBranches /\ run' # "crashed") =>
            \A k \in AppendFields :
                state'[k] = state[k] \o AppendedBy("data_collector", k)
                                     \o AppendedBy("video_analyzer", k) ]_vars

\* Both branches appended to one field of a State that already had an item.
C24_Witness ==
    /\ merged = MergeBranches
    /\ \E k \in AppendFields : state[k] = <<"base", "data_collector", "video_analyzer">>

NoRemoteFailure ==
    \A n \in DOMAIN Get(state, "errors", EmptyDict) :
        state["errors"][n] \notin {"agent error", "generation error"}

\* The reviewer's one answer was an approval: no answer was refused and no
\* edit cycle was run.
ApprovedAtFirstPrompt ==
    /\ recorded = "approve"
    /\ ~HasError(state, "outfit_reviewer")
    /\ ~lastDesign.revision

\* C26: a run that ends after video_generator, in which no remote work failed
\* and the reviewer approved at the first prompt, ends with execution_status =
\* completed for every stage of the pipeline and with no entry in errors.
C26_HappyPathAllCompleted ==
    (run = "done" /\ "video_generator" \in merged /\ ApprovedAtFirstPrompt /\ NoRemoteFailure) =>
        /\ \A n \in Nodes : ExecutionStatus(state, n) = "completed"
        /\ IsEmptyDict(Get(state, "errors", EmptyDict))

\* user_input_collector has finished on a resume value that UserInput rejects.
MalformedUserInput ==
    /\ "user_input_collector" \in DOMAIN writes
    /\ Len(writes["user_input_collector"].resume) > 0
    /\ ~writes["user_input_collector"].resume[1].wellTyped

AtStageBoundary == DOMAIN writes = {} /\ interrupted = {}

FailedDiscoveries == {i \in 1..Len(loop.mcp) : loop.mcp[i].status # "ok"}

\* C29: get_scraper_tools, get_image_tools, get_video_tools and
\* get_outfit_tools never raise: when creating the MCP client or discovering
\* its tools fails the agent is built with an empty tool list, every build ends
\* with an agent, and a stage that ends raised does so from a remote call it
\* made, never from getting its tools.
C29_ToolFailureDegrades ==
    /\ loop.stage # "final_processor" => Len(loop.mcp) = loop.built
    /\ (loop.mcp # <<>> /\ Len(loop.mcp) \in FailedDiscoveries) => loop.agent.tools = <<>>
    /\ (loop.status = "raised" /\ FailedDiscoveries # {}) =>
           /\ Len(loop.calls) >= 1
           /\ loop.error # [kind |-> "Exception", message |-> <<"tools">>]

C29_Witness ==
    /\ loop.stage = "content_analyzer"
    /\ FailedDiscoveries = {1}
    /\ loop.agent.tools = <<>>
    /\ loop.status = "returned"

\* C30: an exception raised while the token usage of a successful remote call
\* is extracted or recorded never changes the stage outcome: the call that
\* succeeded is the last one, no retry follows it, and the stage returns its result.
C30_UsageFailureKeepsOutcome ==
    \A i \in 1..Len(loop.calls) :
        loop.calls[i].kind = "ok" =>
            /\ i = Len(loop.calls)
            /\ loop.status = "returned"
            /\ LoopOutcome(loop) = "ok"


GateNodes == {"user_input_collector", "outfit_reviewer"}

\* What a stage can change outside its return value: State, the updates
\* waiting for the end of the superstep, the data directory, the checkpoint
\* database and the process's URL list.
Effects == <<state, writes, files, fileWriter, config_VIDEO_URLS, checkpoint>>

C32_MergeOneLevelDeep ==
    [][ (Merging /\ run' # "crashed" /\ DOMAIN writes = {"video_generator"}) =>
          LET base == state["agent_memories"]
              update == writes["video_generator"].update["agent_memories"]
              result == state'["agent_memories"]
          IN
          /\ DOMAIN result = (DOMAIN base) \cup (DOMAIN update)
          /\ \A a \in (DOMAIN base) \ (DOMAIN update) : result[a] = base[a]
          /\ \A a \in (DOMAIN update) \ (DOMAIN base) : result[a] = update[a]
          /\ \A a \in (DOMAIN base) \cap (DOMAIN update) :
                /\ DOMAIN result[a] = (DOMAIN base[a]) \cup (DOMAIN update[a])
                /\ \A k \in DOMAIN update[a] : result[a][k] = update[a][k]
                /\ \A k \in (DOMAIN base[a]) \ (DOMAIN update[a]) : result[a][k] = base[a][k]
      ]_vars

\* An agent of both sides was merged: one inner key is kept from the base and
\* the other holds the update's nested value.
C32_Witness ==
    /\ merged = {"video_generator"}
    /\ \E a \in DOMAIN state["agent_memories"] :
          /\ DOMAIN state["agent_memories"][a] = InnerKeys
          /\ state["agent_memories"][a]["last_analysis"] = [count |-> "base"]
          /\ state["agent_memories"][a]["processed_videos"] = [seen |-> "update"]


\* The flag as a reader of State sees it: state.get("awaiting_outfit_review")
\* is None, which is not True, while no stage has written the field.
AwaitingOutfitReview == Get(state, "awaiting_outfit_review", FALSE)

\* C33: awaiting_outfit_review is True in every state in which the run is
\* paused at the outfit review gate and False in every state in which it is not.
C33_FlagTracksReviewPause ==
    AwaitingOutfitReview <=> "outfit_reviewer" \in interrupted


\* The task of n finishes in this step.
Finishes(n) == n \notin DOMAIN writes /\ n \in DOMAIN writes'

\* C34: within a run coordination, final_processor and video_generator do not
\* execute again once they have executed, outfit_designer executes again only
\* for an edit decision, and every execution of outfit_reviewer that has
\* designs to show ends with the answer to the one interrupt it raised.
C34_StagesRunOncePerRun ==
    [][ /\ \A n \in {"coordination", "final_processor", "video_generator"} :
              Finishes(n) => n \notin merged
        /\ (Finishes("outfit_designer") /\ "outfit_designer" \in merged) =>
              DecisionType(state) = "edit"
        /\ (Finishes("outfit_reviewer") /\ Len(Get(state, "outfit_designs", <<>>)) > 0) =>
              Len(writes'["outfit_reviewer"].resume) > 0
      ]_vars


\* State holds the reviewer's approval.
ApprovalRecorded(s) ==
    /\ ExecutionStatus(s, "outfit_reviewer") = "completed"
    /\ DecisionType(s) = "approve"

\* The reviewer's update of this superstep is an approval.
Approving ==
    /\ "outfit_reviewer" \in DOMAIN writes
    /\ "outfit_review_decision" \in DOMAIN writes["outfit_reviewer"].update
    /\ writes["outfit_reviewer"].update.outfit_review_decision.decision_type = "approve"

\* C35: once outfit_reviewer has recorded an approval, no update of a stage
\* of the same superstep or of a later one changes outfit_review_decision or
\* execution_status[outfit_reviewer] while the run lasts.
C35_ApprovalIsStable ==
    [][ /\ (Merging /\ Approving /\ run' # "crashed") =>
              /\ ApprovalRecorded(state')
              /\ state'["outfit_review_decision"] =
                     writes["outfit_reviewer"].update.outfit_review_decision
        /\ (ApprovalRecorded(state) /\ thread' = thread) =>
              /\ ApprovalRecorded(state')
              /\ state'["outfit_review_decision"] = state["outfit_review_decision"]
      ]_vars

\* The approval was recorded, video_generator has merged its update after it
\* and the run has ended.
C35_Witness ==
    /\ ApprovalRecorded(state)
    /\ "video_generator" \in merged
    /\ ExecutionStatus(state, "video_generator") = "completed"
    /\ run = "done"


\* The task of n reads the snapshot now: it is about to run, has run in this
\* superstep or waits at its interrupt.
Reads(n) == run = "running" /\ n \in frontier

\* C36: what a stage hands to its successor arrives.  The snapshot read by
\* content_analyzer after a completed data_collector holds the URL list under
\* data_collection, the snapshot read by outfit_designer after a completed
\* final_processor holds the trend analysis under final_processor, and every
\* key a stage returns is a declared field of FashionAnalysisState.
C36_HandOverArrives ==
    /\ (Reads("content_analyzer") /\ ExecutionStatus(state, "data_collector") = "completed") =>
          Len(Get(Get(state, "data_collection", EmptyDict), "url_list", <<>>)) > 0
    /\ (Reads("outfit_designer") /\ ExecutionStatus(state, "final_processor") = "completed") =>
          ~IsEmptyDict(Get(Get(state, "final_processor", EmptyDict),
                           "trend_analysis", EmptyDict))
    /\ \A n \in DOMAIN writes : DOMAIN writes[n].update \subseteq StateFields


\* The outfit names video_generator has made its videos for.
VideoResults == writes["video_generator"].update.outfit_videos[1].video_results

VideosGenerated ==
    /\ "video_generator" \in DOMAIN writes
    /\ Returned("video_generator") = "completed"

\* C37: after an edit cycle and an approval, video_generator makes videos only
\* for outfits that the most recent invocation of outfit_designer returned.
C37_VideosForLatestDesignOnly ==
    (VideosGenerated /\ lastDesign.revision) =>
        SeqToSet(VideoResults) \subseteq SeqToSet(OutfitNames(lastDesign.outfits))


\* The names of the outfits that the review payload for State s shows under
\* one of the ids, all of them when ids is empty.
ShownWith(s, ids) ==
    LET shown == review_payload(s["outfit_designs"]).outfits IN
    {shown[i].name : i \in {j \in 1..Len(shown) :
                                Len(ids) = 0 \/ shown[j].outfit_id \in SeqToSet(ids)}}

\* C38: after an approval video_generator processes exactly the outfits that
\* the review payload showed under the selected outfit ids, and all outfits
\* shown when no id is selected.
C38_SelectedOutfitsProcessed ==
    (VideosGenerated /\ DecisionType(state) = "approve") =>
        SeqToSet(VideoResults) =
            ShownWith(state, state["outfit_review_decision"].selected_outfit_ids)


\* C39: when the run has ended, errors has an entry for a stage only if the
\* final execution_status of the stage is failed, skipped or rejected; the
\* error of an invocation that a successful one superseded is gone.
C39_ErrorsMatchFinalStatus ==
    run = "done" =>
        \A n \in DOMAIN Get(state, "errors", EmptyDict) :
            ExecutionStatus(state, n) \in {"failed", "skipped", "rejected"}


\* The number of attempts the for loop of the stage allows.
AttemptLimit == IF loop.stage \in TaskLoopStages THEN MAX_RETRIES + 1 ELSE MAX_RETRIES

\* C40: the retry loop of a stage ends whatever its remote calls end with: it
\* makes at most MAX_RETRIES + 1 calls in data_collector, content_analyzer and
\* video_analyzer and at most MAX_RETRIES in final_processor and
\* outfit_designer, it is over once the last allowed call is made, and it is
\* over by returning or raising, never by running out of its range.
C40_RetryLoopTerminates ==
    /\ Len(loop.calls) <= AttemptLimit
    /\ loop.status # "fell_through"
    /\ Len(loop.calls) = AttemptLimit => loop.status \in {"returned", "raised"}

\* A task loop used every attempt on timeouts and rate limits and then raised.
C40_Witness ==
    /\ loop.stage \in TaskLoopStages
    /\ Len(loop.calls) = MAX_RETRIES + 1
    /\ loop.status = "raised"
    /\ \E i, j \in 1..Len(loop.calls) :
          loop.calls[i].kind = "timeout" /\ loop.calls[j].kind = "rate_limited"

================================================================
